---- MODULE Spec2Model ----
(***************************************************************************)
(* Model of the retry/backoff coordinator of opencode-antigravity-auth:    *)
(* the rate limiter (rate-limiter.ts, kept as src/unnamed/part_000) and    *)
(* the warm-up session tracker (src/src/plugin/warmup-tracker.ts).         *)
(*                                                                         *)
(* Every exported function that changes state is one action; the queries  *)
(* getWarmupAttemptCount and hasWarmupSucceeded are operators on the       *)
(* state.  All functions are synchronous, so an action is the whole call.  *)
(* Date.now() is the variable now, which the environment advances between  *)
(* calls and never sets back.  The variable last holds the                 *)
(* arguments and the return value of the most recent call; signals and     *)
(* failureRuns are history variables that remember, per key, what the      *)
(* previous call on that key returned and when it was made; increments     *)
(* counts the incrementEmptyResponseAttempts calls per session since the   *)
(* session's count was last reset.  bursts follows, per key, one burst of  *)
(* getRateLimitBackoff calls: calls that all come less than the dedup      *)
(* window after the first of them.                                         *)
(***************************************************************************)
EXTENDS Integers, Sequences, FiniteSets, TLC

(***************************************************************************)
(* Program constants.                                                      *)
(***************************************************************************)
RATE_LIMIT_DEDUP_WINDOW_MS == 2000
RATE_LIMIT_STATE_RESET_MS == 120000
MAX_CONSECUTIVE_FAILURES == 5
FAILURE_COOLDOWN_MS == 30000
FAILURE_STATE_RESET_MS == 120000
MAX_BACKOFF_MS == 60000
MAX_WARMUP_RETRIES == 2

(***************************************************************************)
(* Bounds of the model.  MAX_WARMUP_SESSIONS is the capacity of the two    *)
(* warm-up sets; the program sets it to 1000 (warmup-tracker.ts:16) and    *)
(* the model scales it down so that the sets fill up.  MaxFailures and     *)
(* MaxEmptyAttempts cap the counters; GrantCap is where the history        *)
(* variable grants stops counting.                                         *)
(***************************************************************************)
MAX_WARMUP_SESSIONS == 2
MaxFailures == 6
GrantCap == 3
MaxEmptyAttempts == 3

(***************************************************************************)
(* Inputs.  An optional value (number | null, T | undefined) is the empty  *)
(* sequence when absent and a one-element sequence when present.           *)
(***************************************************************************)
Accounts == {1, 10}
QuotaKeys == {"claude"}
RetryAfterInputs == {<<>>, <<5000>>, <<40000>>, <<70000>>}
SessionIds == {"", "a", "b", "c"}
RateLimitTimes == {0, 1999, 2000, 120000, 121999, 122000}
FrameKeys == {<<1, "claude">>, <<1, "gemini-cli">>, <<10, "claude">>}
FrameFailureAccounts == {1}
FrameSessionIds == {"a"}
FrameTimes == {0, 2000}
FailureTimes == {0, 30000, 119999, 120000, 150000}

VARIABLES now, rateLimitStateByAccountQuota, accountFailureState,
          emptyResponseAttempts, warmupAttemptedSessionIds,
          warmupSucceededSessionIds, last, signals, failureRuns, grants,
          increments, bursts

rateLimiterVars == <<rateLimitStateByAccountQuota, signals, bursts>>
failureVars == <<accountFailureState, failureRuns>>
emptyVars == <<emptyResponseAttempts, increments>>
warmupVars == <<warmupAttemptedSessionIds, warmupSucceededSessionIds,
                grants>>
vars == <<now, rateLimiterVars, failureVars, emptyVars, warmupVars, last>>

Min(a, b) == IF a < b THEN a ELSE b
Max(a, b) == IF a > b THEN a ELSE b

(***************************************************************************)
(* A JavaScript Map as a function whose domain is the set of keys present. *)
(***************************************************************************)
EmptyMap == [k \in {} |-> 0]
MapGet(m, k) == IF k \in DOMAIN m THEN <<m[k]>> ELSE <<>>
MapSet(m, k, v) == [x \in (DOMAIN m) \cup {k} |-> IF x = k THEN v ELSE m[x]]
MapDelete(m, k) == [x \in (DOMAIN m) \ {k} |-> m[x]]

\* serverRetryAfterMs ?? 1000
Coalesce(opt, default) == IF opt = <<>> THEN default ELSE opt[1]

\* Fault variant: the key leaves out the quota key.
StateKeyAccountOnly(accountIndex, quotaKey) == ToString(accountIndex) \o ":"

\* `${accountIndex}:${quotaKey}`
StateKey(accountIndex, quotaKey) == ToString(accountIndex) \o ":" \o quotaKey

\* String.prototype.startsWith
StartsWith(s, prefix) ==
    /\ Len(s) >= Len(prefix)
    /\ SubSeq(s, 1, Len(prefix)) = prefix

(***************************************************************************)
(* Rate limiter: getRateLimitBackoff.                                      *)
(***************************************************************************)
\* Fault variant: the exponential delay without the Math.min cap.
DelayMsUncapped(serverRetryAfterMs, n) ==
    Coalesce(serverRetryAfterMs, 1000) * 2^(n - 1)

\* Fault variant: the exponent is the attempt number, not one less.
DelayMsExponentOffByOne(serverRetryAfterMs, n) ==
    LET baseDelay == Coalesce(serverRetryAfterMs, 1000)
        backoffDelay == Min(baseDelay * 2^n, MAX_BACKOFF_MS)
    IN  Max(baseDelay, backoffDelay)

\* Math.max(baseDelay, Math.min(baseDelay * Math.pow(2, n - 1), MAX_BACKOFF_MS))
DelayMs(serverRetryAfterMs, n) ==
    LET baseDelay == Coalesce(serverRetryAfterMs, 1000)
        backoffDelay == Min(baseDelay * 2^(n - 1), MAX_BACKOFF_MS)
    IN  Max(baseDelay, backoffDelay)

\* Fault variant: the elapsed time taken for seconds, not milliseconds.
IsDuplicateSeconds(previous, t) ==
    /\ previous # <<>>
    /\ (t - previous[1].lastAt) * 1000 < RATE_LIMIT_DEDUP_WINDOW_MS

\* previous && now - previous.lastAt < RATE_LIMIT_DEDUP_WINDOW_MS
IsDuplicate(previous, t) ==
    /\ previous # <<>>
    /\ t - previous[1].lastAt < RATE_LIMIT_DEDUP_WINDOW_MS

\* Fault variant: the counter never expires.
NextAttemptNoExpiry(previous, t) ==
    IF previous # <<>> THEN previous[1].consecutive429 + 1 ELSE 1

\* Fault variant: the counter is carried over without the increment.
NextAttemptNoIncrement(previous, t) ==
    IF previous # <<>> /\ t - previous[1].lastAt < RATE_LIMIT_STATE_RESET_MS
    THEN previous[1].consecutive429
    ELSE 1

\* previous && now - previous.lastAt < RATE_LIMIT_STATE_RESET_MS
\*     ? previous.consecutive429 + 1 : 1
NextAttempt(previous, t) ==
    IF previous # <<>> /\ t - previous[1].lastAt < RATE_LIMIT_STATE_RESET_MS
    THEN previous[1].consecutive429 + 1
    ELSE 1

\* The BackoffResult of a call made at time t that found `previous` in the map.
BackoffResult(previous, t, serverRetryAfterMs) ==
    IF IsDuplicate(previous, t)
    THEN [attempt |-> previous[1].consecutive429,
          delayMs |-> DelayMs(serverRetryAfterMs, previous[1].consecutive429),
          isDuplicate |-> TRUE]
    ELSE [attempt |-> NextAttempt(previous, t),
          delayMs |-> DelayMs(serverRetryAfterMs, NextAttempt(previous, t)),
          isDuplicate |-> FALSE]

\* Fault variant: a duplicate moves the stored lastAt, so the window slides.
BackoffStateSliding(m, stateKey, quotaKey, t) ==
    LET previous == MapGet(m, stateKey)
    IN  MapSet(m, stateKey,
               [consecutive429 |-> IF IsDuplicate(previous, t)
                                   THEN previous[1].consecutive429
                                   ELSE NextAttempt(previous, t),
                lastAt |-> t,
                quotaKey |-> quotaKey])

\* Fault variant: a duplicate raises the stored count.
BackoffStateCountsDuplicate(m, stateKey, quotaKey, t) ==
    LET previous == MapGet(m, stateKey)
    IN  MapSet(m, stateKey,
               [consecutive429 |-> IF IsDuplicate(previous, t)
                                   THEN previous[1].consecutive429 + 1
                                   ELSE NextAttempt(previous, t),
                lastAt |-> IF IsDuplicate(previous, t)
                           THEN previous[1].lastAt ELSE t,
                quotaKey |-> quotaKey])

\* The map after that call: unchanged by a duplicate, else the key is set.
BackoffState(m, stateKey, quotaKey, t) ==
    LET previous == MapGet(m, stateKey)
    IN  IF IsDuplicate(previous, t)
        THEN m
        ELSE MapSet(m, stateKey,
                    [consecutive429 |-> NextAttempt(previous, t),
                     lastAt |-> t,
                     quotaKey |-> quotaKey])

\* History: the time and result of the latest signal on the key, and the
\* time of the latest signal on it that was not a duplicate.
SignalRecord(prevSignal, t, result) ==
    [at |-> t,
     attempt |-> result.attempt,
     isDuplicate |-> result.isDuplicate,
     freshAt |-> IF result.isDuplicate /\ prevSignal # <<>>
                 THEN prevSignal[1].freshAt ELSE t]

\* History: the burst after a call at time t.  The call opens a burst when
\* none is followed or when it comes the dedup window or more after the
\* first call of the one followed; `before` is the consecutive count stored
\* when the burst opened (0 without an entry) and sinceLast the time since
\* the stored lastAt.
BurstRecord(burst, previous, t, result) ==
    IF burst = <<>> \/ t - burst[1].at >= RATE_LIMIT_DEDUP_WINDOW_MS
    THEN [at |-> t,
          firstFresh |-> ~result.isDuplicate,
          fresh |-> IF result.isDuplicate THEN 0 ELSE 1,
          attempts |-> {result.attempt},
          before |-> IF previous = <<>> THEN 0 ELSE previous[1].consecutive429,
          sinceLast |-> IF previous = <<>> THEN <<>>
                        ELSE <<t - previous[1].lastAt>>]
    ELSE [burst[1] EXCEPT
              !.fresh = IF result.isDuplicate THEN @ ELSE @ + 1,
              !.attempts = @ \cup {result.attempt}]

GetRateLimitBackoff(accountIndex, quotaKey, serverRetryAfterMs) ==
    LET stateKey == StateKey(accountIndex, quotaKey)
        previous == MapGet(rateLimitStateByAccountQuota, stateKey)
        result == BackoffResult(previous, now, serverRetryAfterMs)
        prevSignal == MapGet(signals, stateKey)
    IN  /\ rateLimitStateByAccountQuota' =
               BackoffState(rateLimitStateByAccountQuota, stateKey, quotaKey, now)
        /\ signals' = MapSet(signals, stateKey,
                             SignalRecord(prevSignal, now, result))
        /\ bursts' = MapSet(bursts, stateKey,
                            BurstRecord(MapGet(bursts, stateKey), previous,
                                        now, result))
        /\ last' = [op |-> "getRateLimitBackoff",
                    accountIndex |-> accountIndex,
                    quotaKey |-> quotaKey,
                    stateKey |-> stateKey,
                    serverRetryAfterMs |-> serverRetryAfterMs,
                    at |-> now,
                    prev |-> prevSignal,
                    result |-> result]
        /\ UNCHANGED <<now, failureVars, emptyVars, warmupVars>>

\* Fault variant: the reset leaves the entry in the map.
StateAfterResetKept(m, stateKey) == m

\* rateLimitStateByAccountQuota.delete(`${accountIndex}:${quotaKey}`)
StateAfterReset(m, stateKey) == MapDelete(m, stateKey)

\* last.removed is the entry the delete removed, if there was one.
ResetRateLimitState(accountIndex, quotaKey) ==
    LET stateKey == StateKey(accountIndex, quotaKey)
    IN  /\ rateLimitStateByAccountQuota' =
               StateAfterReset(rateLimitStateByAccountQuota, stateKey)
        /\ signals' = MapDelete(signals, stateKey)
        /\ bursts' = MapDelete(bursts, stateKey)
        /\ last' = [op |-> "resetRateLimitState",
                    accountIndex |-> accountIndex,
                    quotaKey |-> quotaKey,
                    stateKey |-> stateKey,
                    removed |-> MapGet(rateLimitStateByAccountQuota, stateKey)]
        /\ UNCHANGED <<now, failureVars, emptyVars, warmupVars>>

\* Fault variant: the prefix compared without its ":" separator.
KeysOfAccountNoSeparator(m, accountIndex) ==
    {k \in DOMAIN m : StartsWith(k, ToString(accountIndex))}

\* The keys that resetAllRateLimitStateForAccount deletes.
KeysOfAccount(m, accountIndex) ==
    {k \in DOMAIN m : StartsWith(k, ToString(accountIndex) \o ":")}

ResetAllRateLimitStateForAccount(accountIndex) ==
    LET gone == KeysOfAccount(rateLimitStateByAccountQuota, accountIndex)
    IN  /\ rateLimitStateByAccountQuota' =
               [k \in (DOMAIN rateLimitStateByAccountQuota) \ gone |->
                    rateLimitStateByAccountQuota[k]]
        /\ signals' = [k \in (DOMAIN signals) \ gone |-> signals[k]]
        /\ bursts' = [k \in (DOMAIN bursts) \ gone |-> bursts[k]]
        /\ last' = [op |-> "resetAllRateLimitStateForAccount",
                    accountIndex |-> accountIndex,
                    removed |-> gone]
        /\ UNCHANGED <<now, failureVars, emptyVars, warmupVars>>

\* The observer stops following the burst on a key, so that the next call on
\* the key opens a burst whatever the key's state is.  No program state
\* changes.
BeginBurst(stateKey) ==
    /\ stateKey \in DOMAIN bursts
    /\ bursts' = MapDelete(bursts, stateKey)
    /\ UNCHANGED <<now, rateLimitStateByAccountQuota, signals, failureVars,
                   emptyVars, warmupVars, last>>

(***************************************************************************)
(* Failure tracker: trackAccountFailure, resetAccountFailureState.         *)
(***************************************************************************)
\* Fault variant: reaching the cooldown threshold clears the counter.
FailuresClearedByCooldown(previous, t) ==
    IF /\ previous # <<>>
       /\ t - previous[1].lastFailureAt < FAILURE_STATE_RESET_MS
       /\ previous[1].consecutiveFailures < MAX_CONSECUTIVE_FAILURES
    THEN previous[1].consecutiveFailures + 1
    ELSE 1

\* previous && now - previous.lastFailureAt < FAILURE_STATE_RESET_MS
\*     ? previous.consecutiveFailures + 1 : 1
Failures(previous, t) ==
    IF previous # <<>> /\ t - previous[1].lastFailureAt < FAILURE_STATE_RESET_MS
    THEN previous[1].consecutiveFailures + 1
    ELSE 1

\* Fault variant: the cooldown starts one failure early.
FailureResultEarly(failures) ==
    LET shouldCooldown == failures >= MAX_CONSECUTIVE_FAILURES - 1
    IN  [failures |-> failures,
         shouldCooldown |-> shouldCooldown,
         cooldownMs |-> IF shouldCooldown THEN FAILURE_COOLDOWN_MS ELSE 0]

\* failures >= MAX_CONSECUTIVE_FAILURES, FAILURE_COOLDOWN_MS or 0
FailureResult(failures) ==
    LET shouldCooldown == failures >= MAX_CONSECUTIVE_FAILURES
    IN  [failures |-> failures,
         shouldCooldown |-> shouldCooldown,
         cooldownMs |-> IF shouldCooldown THEN FAILURE_COOLDOWN_MS ELSE 0]

\* History: the position of the latest call in its run of calls that are
\* each less than the reset window after the one before, and what it returned.
RunRecord(prevRun, t, result) ==
    [at |-> t,
     n |-> IF prevRun # <<>> /\ t - prevRun[1].at < FAILURE_STATE_RESET_MS
           THEN prevRun[1].n + 1 ELSE 1,
     failures |-> result.failures,
     shouldCooldown |-> result.shouldCooldown]

TrackAccountFailure(accountIndex) ==
    LET previous == MapGet(accountFailureState, accountIndex)
        failures == Failures(previous, now)
        result == FailureResult(failures)
        prevRun == MapGet(failureRuns, accountIndex)
    IN  /\ failures <= MaxFailures
        /\ accountFailureState' =
               MapSet(accountFailureState, accountIndex,
                      [consecutiveFailures |-> failures, lastFailureAt |-> now])
        /\ failureRuns' = MapSet(failureRuns, accountIndex,
                                 RunRecord(prevRun, now, result))
        /\ last' = [op |-> "trackAccountFailure",
                    accountIndex |-> accountIndex,
                    at |-> now,
                    prev |-> prevRun,
                    result |-> result]
        /\ UNCHANGED <<now, rateLimiterVars, emptyVars, warmupVars>>

ResetAccountFailureState(accountIndex) ==
    /\ accountFailureState' = MapDelete(accountFailureState, accountIndex)
    /\ failureRuns' = MapDelete(failureRuns, accountIndex)
    /\ last' = [op |-> "resetAccountFailureState", accountIndex |-> accountIndex]
    /\ UNCHANGED <<now, rateLimiterVars, emptyVars, warmupVars>>

(***************************************************************************)
(* Empty-response attempt counter.                                         *)
(***************************************************************************)
\* emptyResponseAttempts.get(sessionId) ?? 0
EmptyAttemptsOf(m, sessionId) == Coalesce(MapGet(m, sessionId), 0)

\* Fault variant: the count is stored without the increment.
AttemptsAfterIncrementStale(m, sessionId) ==
    MapSet(m, sessionId, EmptyAttemptsOf(m, sessionId))

\* emptyResponseAttempts.set(sessionId, current + 1)
AttemptsAfterIncrement(m, sessionId) ==
    MapSet(m, sessionId, EmptyAttemptsOf(m, sessionId) + 1)

GetEmptyResponseAttempts(sessionId) ==
    /\ last' = [op |-> "getEmptyResponseAttempts",
                sessionId |-> sessionId,
                result |-> EmptyAttemptsOf(emptyResponseAttempts, sessionId)]
    /\ UNCHANGED <<now, rateLimiterVars, failureVars, emptyVars, warmupVars>>

IncrementEmptyResponseAttempts(sessionId) ==
    LET current == EmptyAttemptsOf(emptyResponseAttempts, sessionId)
    IN  /\ current < MaxEmptyAttempts
        /\ emptyResponseAttempts' =
               AttemptsAfterIncrement(emptyResponseAttempts, sessionId)
        /\ increments' = [increments EXCEPT ![sessionId] = @ + 1]
        /\ last' = [op |-> "incrementEmptyResponseAttempts",
                    sessionId |-> sessionId,
                    result |-> current + 1]
        /\ UNCHANGED <<now, rateLimiterVars, failureVars, warmupVars>>

ResetEmptyResponseAttempts(sessionId) ==
    /\ emptyResponseAttempts' = MapDelete(emptyResponseAttempts, sessionId)
    /\ increments' = [increments EXCEPT ![sessionId] = 0]
    /\ last' = [op |-> "resetEmptyResponseAttempts", sessionId |-> sessionId]
    /\ UNCHANGED <<now, rateLimiterVars, failureVars, warmupVars>>

ClearAllState ==
    /\ rateLimitStateByAccountQuota' = EmptyMap
    /\ accountFailureState' = EmptyMap
    /\ emptyResponseAttempts' = EmptyMap
    /\ signals' = EmptyMap
    /\ bursts' = EmptyMap
    /\ failureRuns' = EmptyMap
    /\ increments' = [s \in SessionIds |-> 0]
    /\ last' = [op |-> "clearAllState"]
    /\ UNCHANGED <<now, warmupVars>>

(***************************************************************************)
(* Warm-up session tracker.  A JavaScript Set iterates in insertion order, *)
(* so it is a sequence without repetitions: add appends a new member and   *)
(* leaves a present one where it is, values().next().value is the head.    *)
(***************************************************************************)
SetHas(set, x) == \E i \in 1..Len(set) : set[i] = x
SetAdd(set, x) == IF SetHas(set, x) THEN set ELSE Append(set, x)
SetDelete(set, x) == SelectSeq(set, LAMBDA y : y # x)
SetFirst(set) == IF set = <<>> THEN <<>> ELSE <<set[1]>>

\* if (first): undefined and the empty string are falsy.
Truthy(first) == first # <<>> /\ first[1] # ""

\* The member the LRU cleanup of a set removes, if any.
Evicted(set) ==
    IF Len(set) >= MAX_WARMUP_SESSIONS /\ Truthy(SetFirst(set))
    THEN SetFirst(set)
    ELSE <<>>

AfterCleanup(set, evicted) ==
    IF evicted # <<>> THEN SetDelete(set, evicted[1]) ELSE set

\* getWarmupAttemptCount
WarmupAttemptCount(attempted, sessionId) ==
    IF SetHas(attempted, sessionId) THEN 1 ELSE 0

\* hasWarmupSucceeded
HasWarmupSucceeded(sessionId) == SetHas(warmupSucceededSessionIds, sessionId)

\* Fault variant: trackWarmupAttempt without the check of the succeeded set.
TrackResultNoSuccessCheck(attempted, succeeded, sessionId) ==
    LET cleaned == AfterCleanup(attempted, Evicted(attempted))
    IN  WarmupAttemptCount(cleaned, sessionId) < MAX_WARMUP_RETRIES

\* The return value of trackWarmupAttempt.
TrackResult(attempted, succeeded, sessionId) ==
    IF SetHas(succeeded, sessionId)
    THEN FALSE
    ELSE LET cleaned == AfterCleanup(attempted, Evicted(attempted))
         IN  WarmupAttemptCount(cleaned, sessionId) < MAX_WARMUP_RETRIES

\* warmupAttemptedSessionIds after trackWarmupAttempt.
TrackAttempted(attempted, succeeded, sessionId) ==
    IF SetHas(succeeded, sessionId)
    THEN attempted
    ELSE LET cleaned == AfterCleanup(attempted, Evicted(attempted))
         IN  IF WarmupAttemptCount(cleaned, sessionId) >= MAX_WARMUP_RETRIES
             THEN cleaned
             ELSE SetAdd(cleaned, sessionId)

\* warmupSucceededSessionIds after trackWarmupAttempt.
TrackSucceeded(attempted, succeeded, sessionId) ==
    IF SetHas(succeeded, sessionId)
    THEN succeeded
    ELSE AfterCleanup(succeeded, Evicted(attempted))

\* History: how often trackWarmupAttempt has returned true for each session
\* since its tracking was last cleared or evicted (counted up to GrantCap).
TrackGrants(g, evicted, sessionId, result) ==
    [s \in SessionIds |->
        LET kept == IF evicted = <<s>> THEN 0 ELSE g[s]
        IN  IF s = sessionId /\ result THEN Min(kept + 1, GrantCap) ELSE kept]

TrackWarmupAttempt(sessionId) ==
    LET result == TrackResult(warmupAttemptedSessionIds,
                              warmupSucceededSessionIds, sessionId)
        evicted == IF SetHas(warmupSucceededSessionIds, sessionId)
                   THEN <<>> ELSE Evicted(warmupAttemptedSessionIds)
    IN  /\ warmupAttemptedSessionIds' =
               TrackAttempted(warmupAttemptedSessionIds,
                              warmupSucceededSessionIds, sessionId)
        /\ warmupSucceededSessionIds' =
               TrackSucceeded(warmupAttemptedSessionIds,
                              warmupSucceededSessionIds, sessionId)
        /\ grants' = TrackGrants(grants, evicted, sessionId, result)
        /\ last' = [op |-> "trackWarmupAttempt",
                    sessionId |-> sessionId,
                    result |-> result]
        /\ UNCHANGED <<now, rateLimiterVars, failureVars, emptyVars>>

\* warmupSucceededSessionIds after markWarmupSuccess.
MarkSucceeded(succeeded, sessionId) ==
    LET added == SetAdd(succeeded, sessionId)
    IN  AfterCleanup(added, Evicted(added))

MarkWarmupSuccess(sessionId) ==
    /\ warmupSucceededSessionIds' =
           MarkSucceeded(warmupSucceededSessionIds, sessionId)
    /\ last' = [op |-> "markWarmupSuccess", sessionId |-> sessionId]
    /\ UNCHANGED <<now, rateLimiterVars, failureVars, emptyVars,
                   warmupAttemptedSessionIds, grants>>

\* Fault variant: the delete goes to the other set and leaves this one alone.
ClearAttemptedWrongSet(attempted, sessionId) == attempted

\* warmupAttemptedSessionIds after clearWarmupAttempt.
ClearAttempted(attempted, sessionId) == SetDelete(attempted, sessionId)

ClearWarmupAttempt(sessionId) ==
    /\ warmupAttemptedSessionIds' =
           ClearAttempted(warmupAttemptedSessionIds, sessionId)
    /\ grants' = [grants EXCEPT ![sessionId] = 0]
    /\ last' = [op |-> "clearWarmupAttempt",
                sessionId |-> sessionId,
                deleted |-> SetHas(warmupAttemptedSessionIds, sessionId)]
    /\ UNCHANGED <<now, rateLimiterVars, failureVars, emptyVars,
                   warmupSucceededSessionIds>>

ClearAllWarmupState ==
    /\ warmupAttemptedSessionIds' = <<>>
    /\ warmupSucceededSessionIds' = <<>>
    /\ grants' = [s \in SessionIds |-> 0]
    /\ last' = [op |-> "clearAllWarmupState"]
    /\ UNCHANGED <<now, rateLimiterVars, failureVars, emptyVars>>

(***************************************************************************)
(* The clock: Date.now() does not go back between two calls.               *)
(***************************************************************************)
Advance(times) ==
    /\ \E t \in times : t > now /\ now' = t
    /\ UNCHANGED <<rateLimiterVars, failureVars, emptyVars, warmupVars, last>>

TickRateLimit == Advance(RateLimitTimes)
TickFailure == Advance(FailureTimes)
TickFrame == Advance(FrameTimes)

(***************************************************************************)
(* Specifications: the whole program, and each tracker with its clock.     *)
(***************************************************************************)
Init ==
    /\ now = 0
    /\ rateLimitStateByAccountQuota = EmptyMap
    /\ accountFailureState = EmptyMap
    /\ emptyResponseAttempts = EmptyMap
    /\ warmupAttemptedSessionIds = <<>>
    /\ warmupSucceededSessionIds = <<>>
    /\ last = [op |-> "none"]
    /\ signals = EmptyMap
    /\ bursts = EmptyMap
    /\ failureRuns = EmptyMap
    /\ grants = [s \in SessionIds |-> 0]
    /\ increments = [s \in SessionIds |-> 0]

NextRateLimit ==
    \/ TickRateLimit
    \/ \E a \in Accounts, q \in QuotaKeys, r \in RetryAfterInputs :
           GetRateLimitBackoff(a, q, r)
    \/ \E a \in Accounts, q \in QuotaKeys : ResetRateLimitState(a, q)
    \/ \E a \in Accounts : ResetAllRateLimitStateForAccount(a)
    \/ ClearAllState

NextFailure ==
    \/ TickFailure
    \/ \E a \in Accounts : TrackAccountFailure(a)
    \/ \E a \in Accounts : ResetAccountFailureState(a)
    \/ ClearAllState

NextEmpty ==
    \/ \E s \in SessionIds : GetEmptyResponseAttempts(s)
    \/ \E s \in SessionIds : IncrementEmptyResponseAttempts(s)
    \/ \E s \in SessionIds : ResetEmptyResponseAttempts(s)
    \/ ClearAllState

NextWarmup ==
    \/ \E s \in SessionIds : TrackWarmupAttempt(s)
    \/ \E s \in SessionIds : MarkWarmupSuccess(s)
    \/ \E s \in SessionIds : ClearWarmupAttempt(s)
    \/ ClearAllWarmupState

\* The three trackers of rate-limiter.ts side by side, with two quota keys
\* for account 1 and one for account 10.
NextFrame ==
    \/ TickFrame
    \/ \E k \in FrameKeys : GetRateLimitBackoff(k[1], k[2], <<>>)
    \/ \E k \in FrameKeys : ResetRateLimitState(k[1], k[2])
    \/ \E a \in Accounts : ResetAllRateLimitStateForAccount(a)
    \/ \E a \in FrameFailureAccounts : TrackAccountFailure(a)
    \/ \E a \in FrameFailureAccounts : ResetAccountFailureState(a)
    \/ \E s \in FrameSessionIds : IncrementEmptyResponseAttempts(s)
    \/ \E s \in FrameSessionIds : ResetEmptyResponseAttempts(s)

\* The rate limiter with bursts that open at any call.
NextBurst ==
    \/ NextRateLimit
    \/ \E a \in Accounts, q \in QuotaKeys : BeginBurst(StateKey(a, q))

Next == NextBurst \/ NextFailure \/ NextEmpty \/ NextWarmup \/ NextFrame

Spec == Init /\ [][Next]_vars
SpecRateLimit == Init /\ [][NextRateLimit]_vars
SpecFailure == Init /\ [][NextFailure]_vars
SpecEmpty == Init /\ [][NextEmpty]_vars
SpecWarmup == Init /\ [][NextWarmup]_vars
SpecFrame == Init /\ [][NextFrame]_vars
SpecBurst == Init /\ [][NextBurst]_vars

(***************************************************************************)
(* Properties.  In a state whose last call is getRateLimitBackoff,         *)
(* last.prev is the signal record of the same key before the call: absent  *)
(* when the key has seen no signal since it was last reset.                *)
(***************************************************************************)
IsBackoff == last.op = "getRateLimitBackoff"
IsFailure == last.op = "trackAccountFailure"

\* C1 (as claimed): two successive getRateLimitBackoff calls on a key less
\* than the dedup window apart, with no reset in between: the second returns
\* isDuplicate = true and the attempt number of the first, whatever calls
\* preceded the pair.
C1_Original ==
    (IsBackoff /\ last.prev # <<>>
        /\ last.at - last.prev[1].at < RATE_LIMIT_DEDUP_WINDOW_MS)
    => (last.result.isDuplicate /\ last.result.attempt = last.prev[1].attempt)

\* C1 (amended): a getRateLimitBackoff call made less than the dedup window
\* after the latest non-duplicate signal on its key, with no reset in
\* between, returns isDuplicate = true and the attempt number of the previous
\* signal on the key; this covers every pair whose first call was not a
\* duplicate.
C1_Amended ==
    (IsBackoff /\ last.prev # <<>>
        /\ last.at - last.prev[1].freshAt < RATE_LIMIT_DEDUP_WINDOW_MS)
    => (last.result.isDuplicate /\ last.result.attempt = last.prev[1].attempt)

\* A duplicate right after a non-duplicate of attempt 2, at a later time.
C1_Witness ==
    /\ IsBackoff /\ last.prev # <<>>
    /\ ~last.prev[1].isDuplicate
    /\ last.at > last.prev[1].at
    /\ last.at - last.prev[1].at < RATE_LIMIT_DEDUP_WINDOW_MS
    /\ last.result.isDuplicate
    /\ last.result.attempt = 2

\* C3 (as claimed): the delayMs that getRateLimitBackoff returns never
\* exceeds MAX_BACKOFF_MS, whatever serverRetryAfterMs is.
C3_Original == IsBackoff => last.result.delayMs <= MAX_BACKOFF_MS

\* C3 (amended): delayMs never exceeds MAX_BACKOFF_MS when the base delay
\* (serverRetryAfterMs, or 1000 when it is null) does not exceed it; when the
\* base delay is larger than MAX_BACKOFF_MS, delayMs is the base delay.
C3_Amended ==
    IsBackoff =>
        LET baseDelay == Coalesce(last.serverRetryAfterMs, 1000)
        IN  /\ baseDelay <= MAX_BACKOFF_MS => last.result.delayMs <= MAX_BACKOFF_MS
            /\ baseDelay > MAX_BACKOFF_MS => last.result.delayMs = baseDelay

\* The cap takes effect: base 40000 at attempt 2 would double to 80000.
C3_Witness ==
    /\ IsBackoff
    /\ last.serverRetryAfterMs = <<40000>>
    /\ last.result.attempt >= 2
    /\ last.result.isDuplicate
    /\ last.result.delayMs = MAX_BACKOFF_MS

\* C4 (as claimed): a call at least the dedup window but less than the reset
\* window after the previous signal on its key (duplicate or not), with no
\* reset in between, returns isDuplicate = false and the previous signal's
\* attempt number plus one.
C4_Original ==
    (IsBackoff /\ last.prev # <<>>
        /\ last.at - last.prev[1].at >= RATE_LIMIT_DEDUP_WINDOW_MS
        /\ last.at - last.prev[1].at < RATE_LIMIT_STATE_RESET_MS)
    => (~last.result.isDuplicate
        /\ last.result.attempt = last.prev[1].attempt + 1)

\* C4 (amended): a call at least the dedup window after the previous signal
\* on its key and less than the reset window after the latest non-duplicate
\* signal on it, with no reset in between, returns isDuplicate = false and
\* the previous signal's attempt number plus one.
C4_Amended ==
    (IsBackoff /\ last.prev # <<>>
        /\ last.at - last.prev[1].at >= RATE_LIMIT_DEDUP_WINDOW_MS
        /\ last.at - last.prev[1].freshAt < RATE_LIMIT_STATE_RESET_MS)
    => (~last.result.isDuplicate
        /\ last.result.attempt = last.prev[1].attempt + 1)

\* The increment after a previous signal that was itself a duplicate.
C4_Witness ==
    /\ IsBackoff /\ last.prev # <<>>
    /\ last.prev[1].isDuplicate
    /\ last.at - last.prev[1].at >= RATE_LIMIT_DEDUP_WINDOW_MS
    /\ last.at - last.prev[1].freshAt < RATE_LIMIT_STATE_RESET_MS
    /\ ~last.result.isDuplicate
    /\ last.result.attempt = last.prev[1].attempt + 1

\* C5: a getRateLimitBackoff call made at least RATE_LIMIT_STATE_RESET_MS
\* after the last signal on its key returns attempt = 1 and isDuplicate =
\* false, as a call on a key with no prior state does, however large the
\* previous consecutive count was.
C5_ResetAfterWindow ==
    (IsBackoff
        /\ (last.prev = <<>>
            \/ last.at - last.prev[1].at >= RATE_LIMIT_STATE_RESET_MS))
    => (last.result.attempt = 1
        /\ ~last.result.isDuplicate
        /\ last.result.delayMs = Coalesce(last.serverRetryAfterMs, 1000))

\* A restart at 1 exactly the reset window after a signal of attempt 2.
C5_Witness ==
    /\ IsBackoff /\ last.prev # <<>>
    /\ last.prev[1].attempt >= 2
    /\ last.at - last.prev[1].at = RATE_LIMIT_STATE_RESET_MS
    /\ last.result.attempt = 1
    /\ ~last.result.isDuplicate

\* C6: in a run of trackAccountFailure calls on an account, each less than
\* FAILURE_STATE_RESET_MS after the one before and with no reset in between,
\* the n-th call returns failures = n, with shouldCooldown = false and
\* cooldownMs = 0 for n < 5 and shouldCooldown = true and cooldownMs = 30000
\* for n >= 5; a call at least the reset window after the previous failure
\* returns failures = 1 and shouldCooldown = false.
C6_FailureRun ==
    IsFailure =>
        LET n == IF last.prev # <<>>
                    /\ last.at - last.prev[1].at < FAILURE_STATE_RESET_MS
                 THEN last.prev[1].n + 1 ELSE 1
        IN  /\ last.result.failures = n
            /\ last.result.shouldCooldown = (n >= 5)
            /\ last.result.cooldownMs = (IF n >= 5 THEN 30000 ELSE 0)
            /\ (last.prev # <<>>
                  /\ last.at - last.prev[1].at >= FAILURE_STATE_RESET_MS)
               => (last.result.failures = 1 /\ ~last.result.shouldCooldown)

\* The fifth call of a run, which starts the cooldown.
C6_Witness ==
    /\ IsFailure /\ last.prev # <<>>
    /\ last.prev[1].n = 4
    /\ ~last.prev[1].shouldCooldown
    /\ last.result = [failures |-> 5, shouldCooldown |-> TRUE, cooldownMs |-> 30000]

\* C10 (as claimed): once trackAccountFailure has returned shouldCooldown =
\* true for an account, every later call for it before a reset, however much
\* time has passed, returns a larger failures value and shouldCooldown = true.
C10_Original ==
    (IsFailure /\ last.prev # <<>> /\ last.prev[1].shouldCooldown)
    => (last.result.failures > last.prev[1].failures
        /\ last.result.shouldCooldown)

\* C10 (amended): once trackAccountFailure has returned shouldCooldown = true
\* for an account, every later call for it before a reset that is made less
\* than FAILURE_STATE_RESET_MS after the previous failure (the cooldown
\* duration may have passed) returns the previous failures value plus one
\* and shouldCooldown = true.
C10_Amended ==
    (IsFailure /\ last.prev # <<>> /\ last.prev[1].shouldCooldown
        /\ last.at - last.prev[1].at < FAILURE_STATE_RESET_MS)
    => (last.result.failures = last.prev[1].failures + 1
        /\ last.result.shouldCooldown)

\* A failure after the cooldown duration has passed still counts on.
C10_Witness ==
    /\ IsFailure /\ last.prev # <<>>
    /\ last.prev[1].shouldCooldown
    /\ last.at - last.prev[1].at >= FAILURE_COOLDOWN_MS
    /\ last.at - last.prev[1].at < FAILURE_STATE_RESET_MS
    /\ last.result.failures = MAX_CONSECUTIVE_FAILURES + 1
    /\ last.result.shouldCooldown

IsTrack == last.op = "trackWarmupAttempt"
IsMark == last.op = "markWarmupSuccess"
IsClear == last.op = "clearWarmupAttempt"

\* C2 (as claimed): without clearWarmupAttempt, clearAllWarmupState or a
\* capacity eviction of the session, trackWarmupAttempt(session) returns true
\* at most MAX_WARMUP_RETRIES times.
C2_Claim == \A s \in SessionIds : grants[s] <= MAX_WARMUP_RETRIES

\* C7: hasWarmupSucceeded(s) is false for a session never marked (it is false
\* at the start and becomes true only by markWarmupSuccess(s)); it is true
\* right after markWarmupSuccess(s); and a trackWarmupAttempt(s) call on a
\* session that has succeeded returns false and leaves it succeeded.
C7_BecomesTrueOnlyByMark ==
    \A s \in SessionIds :
        (~HasWarmupSucceeded(s) /\ HasWarmupSucceeded(s)')
        => (last'.op = "markWarmupSuccess" /\ last'.sessionId = s)

C7_TrackKeepsSuccess ==
    \A s \in SessionIds :
        (HasWarmupSucceeded(s)
            /\ last'.op = "trackWarmupAttempt" /\ last'.sessionId = s)
        => (last'.result = FALSE /\ HasWarmupSucceeded(s)')

C7_SuccessFlag ==
    /\ \A s \in SessionIds : ~HasWarmupSucceeded(s)
    /\ [](IsMark => HasWarmupSucceeded(last.sessionId))
    /\ [][C7_BecomesTrueOnlyByMark /\ C7_TrackKeepsSuccess]_vars

\* trackWarmupAttempt has refused a session that has succeeded, while the
\* succeeded set holds another session too.
C7_Witness ==
    /\ IsTrack
    /\ last.result = FALSE
    /\ HasWarmupSucceeded(last.sessionId)
    /\ Len(warmupSucceededSessionIds) >= 2

\* C8 (as claimed): the attempted set never holds more than
\* MAX_WARMUP_SESSIONS members; and a trackWarmupAttempt that inserts a new
\* session id while the set is at the bound removes exactly one member, the
\* one inserted earliest.
C8_EvictsEarliest ==
    \A s \in SessionIds :
        (/\ Len(warmupAttemptedSessionIds) = MAX_WARMUP_SESSIONS
         /\ ~SetHas(warmupAttemptedSessionIds, s)
         /\ SetHas(warmupAttemptedSessionIds', s)
         /\ last'.op = "trackWarmupAttempt")
        => warmupAttemptedSessionIds' =
               Append(Tail(warmupAttemptedSessionIds), s)

C8_Claim ==
    /\ [](Len(warmupAttemptedSessionIds) <= MAX_WARMUP_SESSIONS)
    /\ [][C8_EvictsEarliest]_vars

\* C9 (as claimed): after clearWarmupAttempt(s), whatever state s was in,
\* hasWarmupSucceeded(s) is false, getWarmupAttemptCount(s) is 0 and the next
\* trackWarmupAttempt(s) returns true.
C9_Original ==
    IsClear =>
        /\ ~HasWarmupSucceeded(last.sessionId)
        /\ WarmupAttemptCount(warmupAttemptedSessionIds, last.sessionId) = 0
        /\ TrackResult(warmupAttemptedSessionIds, warmupSucceededSessionIds,
                       last.sessionId)

\* C9 (amended): after clearWarmupAttempt(s), getWarmupAttemptCount(s) is 0;
\* for a session s that is not in the succeeded set, hasWarmupSucceeded(s) is
\* false and the next trackWarmupAttempt(s) returns true; a session in the
\* succeeded set stays there, and the next trackWarmupAttempt(s) returns
\* false.
C9_NextTrack ==
    (IsClear /\ last'.op = "trackWarmupAttempt"
        /\ last'.sessionId = last.sessionId)
    => (last'.result = ~HasWarmupSucceeded(last.sessionId))

C9_ClearKeepsSuccess ==
    last'.op = "clearWarmupAttempt"
    => warmupSucceededSessionIds' = warmupSucceededSessionIds

C9_Amended ==
    /\ [](IsClear =>
            WarmupAttemptCount(warmupAttemptedSessionIds, last.sessionId) = 0)
    /\ [][C9_NextTrack /\ C9_ClearKeepsSuccess]_vars

\* clearWarmupAttempt has removed an attempted session that has not succeeded.
C9_Witness ==
    /\ IsClear
    /\ last.deleted
    /\ ~HasWarmupSucceeded(last.sessionId)
    /\ WarmupAttemptCount(warmupAttemptedSessionIds, last.sessionId) = 0
    /\ warmupAttemptedSessionIds # <<>>

\* C11 (as claimed): markWarmupSuccess(s) removes a member of the succeeded
\* set only when adding s would make the set hold more than
\* MAX_WARMUP_SESSIONS members, and then exactly the earliest-inserted one;
\* the set never holds more than MAX_WARMUP_SESSIONS members.
C11_RemovesOnlyOnOverflow ==
    (last'.op = "markWarmupSuccess"
        /\ \E x \in SessionIds : /\ SetHas(warmupSucceededSessionIds, x)
                                 /\ ~SetHas(warmupSucceededSessionIds', x))
    => (/\ Len(warmupSucceededSessionIds) = MAX_WARMUP_SESSIONS
        /\ ~SetHas(warmupSucceededSessionIds, last'.sessionId)
        /\ warmupSucceededSessionIds' =
               Append(Tail(warmupSucceededSessionIds), last'.sessionId))

C11_Claim ==
    /\ [](Len(warmupSucceededSessionIds) <= MAX_WARMUP_SESSIONS)
    /\ [][C11_RemovesOnlyOnOverflow]_vars

(***************************************************************************)
(* Properties of the rate limiter's resets and of the separation between   *)
(* keys and between trackers.                                              *)
(***************************************************************************)
IsReset == last.op = "resetRateLimitState"
IsResetAll == last.op = "resetAllRateLimitStateForAccount"
RateLimitStateOf(m, key) == MapGet(m, StateKey(key[1], key[2]))

\* C12: resetAllRateLimitStateForAccount(a) removes the rate-limit state of
\* every quota key of account a and leaves unchanged the rate-limit state of
\* every other account (account 10 when a is 1, and the other way round) and
\* all failure and empty-response state.
C12_ResetAllStep ==
    last'.op = "resetAllRateLimitStateForAccount" =>
        /\ \A k \in FrameKeys :
               RateLimitStateOf(rateLimitStateByAccountQuota', k) =
                   IF k[1] = last'.accountIndex
                   THEN <<>>
                   ELSE RateLimitStateOf(rateLimitStateByAccountQuota, k)
        /\ DOMAIN rateLimitStateByAccountQuota'
               \subseteq DOMAIN rateLimitStateByAccountQuota
        /\ accountFailureState' = accountFailureState
        /\ emptyResponseAttempts' = emptyResponseAttempts

C12_ResetAllFrame == [][C12_ResetAllStep]_vars

\* Both quota keys of account 1 were removed while account 10, the failure
\* tracker and the empty-response counter hold state.
C12_Witness ==
    /\ IsResetAll
    /\ last.accountIndex = 1
    /\ last.removed = {"1:claude", "1:gemini-cli"}
    /\ DOMAIN rateLimitStateByAccountQuota = {"10:claude"}
    /\ accountFailureState # EmptyMap
    /\ emptyResponseAttempts # EmptyMap

\* C13: after resetRateLimitState(a, q) the next getRateLimitBackoff(a, q, _)
\* returns attempt = 1 and isDuplicate = false however recent the previous
\* signal on the key was, and the reset leaves every other key's state
\* unchanged.
C13_ResetStep ==
    last'.op = "resetRateLimitState" =>
        /\ last'.stateKey \notin DOMAIN rateLimitStateByAccountQuota'
        /\ \A k \in (DOMAIN rateLimitStateByAccountQuota
                        \cup DOMAIN rateLimitStateByAccountQuota')
                    \ {last'.stateKey} :
               MapGet(rateLimitStateByAccountQuota', k) =
                   MapGet(rateLimitStateByAccountQuota, k)

C13_NextCallStep ==
    (IsReset /\ last'.op = "getRateLimitBackoff"
        /\ last'.stateKey = last.stateKey)
    => (last'.result.attempt = 1 /\ ~last'.result.isDuplicate)

C13_ResetOne ==
    /\ [](IsBackoff /\ last.prev = <<>>
            => (last.result.attempt = 1 /\ ~last.result.isDuplicate))
    /\ [][C13_ResetStep /\ C13_NextCallStep]_vars

\* A reset inside the dedup window of a key at attempt 2, while the other
\* key holds state.
C13_Witness ==
    /\ IsReset
    /\ last.removed # <<>>
    /\ last.removed[1].consecutive429 = 2
    /\ now - last.removed[1].lastAt < RATE_LIMIT_DEDUP_WINDOW_MS
    /\ rateLimitStateByAccountQuota # EmptyMap

(***************************************************************************)
(* Properties of the empty-response attempt counter.                       *)
(***************************************************************************)
\* C14: getEmptyResponseAttempts(s) is the number of
\* incrementEmptyResponseAttempts(s) calls since the last
\* resetEmptyResponseAttempts(s) or clearAllState (0 if none); an increment
\* returns the previous value plus one; and a call for one session id never
\* changes the count of another.
C14_OthersKept ==
    \A s \in SessionIds :
        (last'.op \in {"getEmptyResponseAttempts",
                       "incrementEmptyResponseAttempts",
                       "resetEmptyResponseAttempts"}
            /\ last'.sessionId # s)
        => EmptyAttemptsOf(emptyResponseAttempts', s) =
               EmptyAttemptsOf(emptyResponseAttempts, s)

C14_IncrementReturns ==
    last'.op = "incrementEmptyResponseAttempts"
    => last'.result = increments[last'.sessionId] + 1

C14_Counter ==
    /\ [](\A s \in SessionIds :
              EmptyAttemptsOf(emptyResponseAttempts, s) = increments[s])
    /\ [](last.op = "getEmptyResponseAttempts"
              => last.result = increments[last.sessionId])
    /\ [][C14_OthersKept /\ C14_IncrementReturns]_vars

\* A third increment in a row for one session while another session counts
\* 1 and a third has no entry.
C14_Witness ==
    /\ last.op = "incrementEmptyResponseAttempts"
    /\ last.result = 3
    /\ \E s \in SessionIds \ {last.sessionId} :
           /\ s \in DOMAIN emptyResponseAttempts
           /\ emptyResponseAttempts[s] = 1
    /\ \E s \in SessionIds \ {last.sessionId} :
           s \notin DOMAIN emptyResponseAttempts

(***************************************************************************)
(* C15.  In a burst of getRateLimitBackoff calls on one key, all less than *)
(* 2000 ms after the first call of the burst, exactly one call returns     *)
(* isDuplicate = false, the key's consecutive count rises by exactly one   *)
(* over the burst, and every call returns the same attempt number.         *)
(***************************************************************************)
C15_Original ==
    \A k \in DOMAIN bursts :
        /\ bursts[k].fresh = 1
        /\ Cardinality(bursts[k].attempts) = 1
        /\ rateLimitStateByAccountQuota[k].consecutive429 =
               bursts[k].before + 1

\* C15 as the code has it.  The statement needs the first call of the burst
\* not to be a duplicate of an earlier signal: then that call is the only
\* one that returns isDuplicate = false, every call of the burst returns the
\* stored count, and that count is one more than before the burst, or 1 when
\* the burst opened the reset window or more after the stored lastAt.
C15_Amended ==
    \A k \in DOMAIN bursts :
        bursts[k].firstFresh
        => /\ bursts[k].fresh = 1
           /\ bursts[k].attempts =
                  {rateLimitStateByAccountQuota[k].consecutive429}
           /\ rateLimitStateByAccountQuota[k].consecutive429 =
                  IF /\ bursts[k].sinceLast # <<>>
                     /\ bursts[k].sinceLast[1] >= RATE_LIMIT_STATE_RESET_MS
                  THEN 1
                  ELSE bursts[k].before + 1

\* A duplicate, 1999 ms after the first call of a burst that raised the
\* count from 1 to 2.
C15_Witness ==
    /\ IsBackoff
    /\ last.result.isDuplicate
    /\ last.stateKey \in DOMAIN bursts
    /\ bursts[last.stateKey].firstFresh
    /\ bursts[last.stateKey].before = 1
    /\ last.result.attempt = 2
    /\ last.at - bursts[last.stateKey].at = 1999

(***************************************************************************)
(* C16.  Every getRateLimitBackoff call, duplicate or not, returns         *)
(* delayMs = max(base, min(base * 2^(attempt-1), 60000)), where base is    *)
(* serverRetryAfterMs when given and 1000 otherwise and attempt is the     *)
(* attempt number the same call returns.  Hence the first incident's delay *)
(* is the base, the delay does not fall when the attempt number does not   *)
(* fall and the base is the same, and fresh signals with base 5000 give    *)
(* 5000, 10000, 20000 at attempts 1, 2, 3.                                 *)
(***************************************************************************)
C16_Base == IF last.serverRetryAfterMs = <<>> THEN 1000
            ELSE last.serverRetryAfterMs[1]

C16_Formula ==
    IsBackoff
    => LET exponential == C16_Base * 2^(last.result.attempt - 1)
           capped == IF exponential < 60000 THEN exponential ELSE 60000
       IN  /\ last.result.delayMs =
                  IF C16_Base > capped THEN C16_Base ELSE capped
           /\ last.result.attempt = 1 => last.result.delayMs = C16_Base
           /\ (C16_Base = 5000 /\ ~last.result.isDuplicate)
              => /\ last.result.attempt = 1 => last.result.delayMs = 5000
                 /\ last.result.attempt = 2 => last.result.delayMs = 10000
                 /\ last.result.attempt = 3 => last.result.delayMs = 20000

\* Two calls in a row with the same base: the later delay is no smaller when
\* the later attempt number is no smaller.
C16_NonDecreasing ==
    (/\ IsBackoff
     /\ last'.op = "getRateLimitBackoff"
     /\ last'.serverRetryAfterMs = last.serverRetryAfterMs
     /\ last'.result.attempt >= last.result.attempt)
    => last'.result.delayMs >= last.result.delayMs

C16_Delay == []C16_Formula /\ [][C16_NonDecreasing]_vars

\* The third fresh signal in a row with base 5000: 20000 ms.
C16_Witness ==
    /\ IsBackoff
    /\ ~last.result.isDuplicate
    /\ last.serverRetryAfterMs = <<5000>>
    /\ last.result.attempt = 3
    /\ last.result.delayMs = 20000
    /\ last.prev # <<>>
    /\ last.prev[1].attempt = 2

(***************************************************************************)
(* C17.  A getRateLimitBackoff call that returns isDuplicate = true leaves *)
(* the whole rate-limit map unchanged, lastAt included: the dedup window   *)
(* is anchored at the last signal that was not a duplicate and does not    *)
(* slide, so on any key at least 2000 ms pass between two successive       *)
(* signals that are not duplicates.                                        *)
(***************************************************************************)
C17_DuplicateFrame ==
    (last'.op = "getRateLimitBackoff" /\ last'.result.isDuplicate)
    => rateLimitStateByAccountQuota' = rateLimitStateByAccountQuota

\* The stored lastAt is the time of the key's latest non-duplicate signal
\* since the key was last reset, and a non-duplicate signal comes 2000 ms or
\* more after the one before it since then.
C17_Anchored ==
    /\ \A k \in DOMAIN rateLimitStateByAccountQuota :
           /\ k \in DOMAIN signals
           /\ rateLimitStateByAccountQuota[k].lastAt = signals[k].freshAt
    /\ (IsBackoff /\ last.prev # <<>> /\ ~last.result.isDuplicate)
       => last.at - last.prev[1].freshAt >= RATE_LIMIT_DEDUP_WINDOW_MS

\* The same distance from a non-duplicate signal whose entry a
\* resetRateLimitState has just deleted.
C17_AcrossReset ==
    (/\ IsReset
     /\ last.removed # <<>>
     /\ last'.op = "getRateLimitBackoff"
     /\ last'.stateKey = last.stateKey
     /\ ~last'.result.isDuplicate)
    => last'.at - last.removed[1].lastAt >= RATE_LIMIT_DEDUP_WINDOW_MS

C17_Original ==
    /\ []C17_Anchored
    /\ [][C17_DuplicateFrame /\ C17_AcrossReset]_vars

\* C17 as the code has it: the distance holds between successive
\* non-duplicate signals with no reset of the key between them.
C17_Amended ==
    /\ []C17_Anchored
    /\ [][C17_DuplicateFrame]_vars

\* A non-duplicate signal at 2000, one millisecond after a duplicate at 1999
\* that left lastAt at 0.
C17_Witness ==
    /\ IsBackoff
    /\ ~last.result.isDuplicate
    /\ last.at = 2000
    /\ last.prev # <<>>
    /\ last.prev[1].isDuplicate
    /\ last.prev[1].at = 1999
    /\ last.prev[1].freshAt = 0

(***************************************************************************)
(* C18 (as claimed).  trackWarmupAttempt(t) turns hasWarmupSucceeded(s)    *)
(* from true to false for another session s only when the attempted set    *)
(* holds MAX_WARMUP_SESSIONS members and s is the earliest-inserted one;   *)
(* in every other state trackWarmupAttempt, and clearWarmupAttempt in      *)
(* every state, leave the succeeded set unchanged; a success flag is lost  *)
(* only by a capacity eviction or by clearAllWarmupState.                  *)
(***************************************************************************)
C18_LostOnlyByEviction ==
    \A s \in SessionIds :
        (HasWarmupSucceeded(s) /\ ~HasWarmupSucceeded(s)')
        => \/ last'.op = "clearAllWarmupState"
           \/ /\ last'.op = "markWarmupSuccess"
              /\ warmupSucceededSessionIds[1] = s
           \/ /\ last'.op = "trackWarmupAttempt"
              /\ last'.sessionId # s
              /\ Len(warmupAttemptedSessionIds) = MAX_WARMUP_SESSIONS
              /\ warmupAttemptedSessionIds[1] = s

C18_OtherStatesKeep ==
    /\ last'.op = "clearWarmupAttempt"
       => warmupSucceededSessionIds' = warmupSucceededSessionIds
    /\ (/\ last'.op = "trackWarmupAttempt"
        /\ Len(warmupAttemptedSessionIds) # MAX_WARMUP_SESSIONS)
       => warmupSucceededSessionIds' = warmupSucceededSessionIds

C18_Claim == [][C18_LostOnlyByEviction /\ C18_OtherStatesKeep]_vars

(***************************************************************************)
(* C19.  Backoff state is separate per (account, quota key):               *)
(* getRateLimitBackoff and resetRateLimitState on one key change neither   *)
(* the stored state nor the later results of any other key (another quota  *)
(* of the same account, the same quota of another account), so calls on    *)
(* different keys commute; no rate-limit operation changes failure-tracker *)
(* state, and no failure-tracker operation changes rate-limit state.       *)
(***************************************************************************)
C19_OtherKeysKept ==
    last'.op \in {"getRateLimitBackoff", "resetRateLimitState"}
    => \A k \in FrameKeys :
           k # <<last'.accountIndex, last'.quotaKey>>
           => RateLimitStateOf(rateLimitStateByAccountQuota', k) =
                  RateLimitStateOf(rateLimitStateByAccountQuota, k)

C19_TrackersApart ==
    /\ last'.op \in {"getRateLimitBackoff", "resetRateLimitState",
                     "resetAllRateLimitStateForAccount"}
       => accountFailureState' = accountFailureState
    /\ last'.op \in {"trackAccountFailure", "resetAccountFailureState"}
       => rateLimitStateByAccountQuota' = rateLimitStateByAccountQuota

\* From the state reached, a call or a reset on one key and a call or a reset
\* on another give the same map in either order, and the first leaves what
\* a call on the second returns as it was.
C19_Commute ==
    \A k1 \in FrameKeys, k2 \in FrameKeys :
        k1 # k2
        => LET m == rateLimitStateByAccountQuota
               s1 == StateKey(k1[1], k1[2])
               s2 == StateKey(k2[1], k2[2])
               call1(mm) == BackoffState(mm, s1, k1[2], now)
               call2(mm) == BackoffState(mm, s2, k2[2], now)
               reset1(mm) == StateAfterReset(mm, s1)
               reset2(mm) == StateAfterReset(mm, s2)
               result2(mm) == BackoffResult(MapGet(mm, s2), now, <<>>)
           IN  /\ call1(call2(m)) = call2(call1(m))
               /\ reset1(call2(m)) = call2(reset1(m))
               /\ reset1(reset2(m)) = reset2(reset1(m))
               /\ result2(call1(m)) = result2(m)
               /\ result2(reset1(m)) = result2(m)

C19_Separate ==
    /\ []C19_Commute
    /\ [][C19_OtherKeysKept /\ C19_TrackersApart]_vars

\* A first signal on the second quota of account 1 while its first quota is
\* at attempt 2, account 10 holds state and the failure tracker counts.
C19_Witness ==
    /\ IsBackoff
    /\ last.accountIndex = 1
    /\ last.quotaKey = "gemini-cli"
    /\ last.result.attempt = 1
    /\ RateLimitStateOf(rateLimitStateByAccountQuota, <<1, "claude">>) # <<>>
    /\ RateLimitStateOf(rateLimitStateByAccountQuota,
                        <<1, "claude">>)[1].consecutive429 = 2
    /\ RateLimitStateOf(rateLimitStateByAccountQuota, <<10, "claude">>) # <<>>
    /\ accountFailureState # EmptyMap

====
